---------------------------- MODULE Spec2Model ----------------------------
(***************************************************************************)
(* Model of the answer resolution engine of create-adapter                 *)
(* (src/src/lib/questions.ts): the question graph, checkAnswers,           *)
(* formatAnswers and validateAnswers, driven by the createAdapter pipeline *)
(* on answer sets assembled the way test/create-adapter.test.ts does, or   *)
(* inferred from a migration context by the questions' migrate functions.  *)
(*                                                                         *)
(* Values.  An answer value is a record [k, v]: k is the JavaScript kind   *)
(* ("undefined", "null", "boolean", "string", "array") and v a sequence of *)
(* tokens.  A string is the sequence of its tokens (a token is a blank     *)
(* " ", a comma "," or a word), so that trimming and splitting are         *)
(* computed; an array is the sequence of its (string) elements.            *)
(***************************************************************************)
EXTENDS Integers, Sequences, FiniteSets, TLC

\* ------------------------------------------------------------------ bounds
\* How many entries of a base answer set the caller changes or removes.
MaxEdits == 2
\* How many names the caller lists in disableValidation.
MaxSkip == 1

\* ------------------------------------------------------------------ values
UNDEF == [k |-> "undefined", v |-> <<>>]
NULL == [k |-> "null", v |-> <<>>]
Str(s) == [k |-> "string", v |-> s]
Arr(s) == [k |-> "array", v |-> s]
Bool(b) == [k |-> "boolean", v |-> IF b THEN <<"true">> ELSE <<"false">>]
\* A one-word string such as "daemon".
Word(w) == Str(<<w>>)

\* JavaScript's `x == undefined`: true of undefined and of null.
IsNullish(x) == x.k \in {"undefined", "null"}

Range(s) == {s[i] : i \in 1..Len(s)}

\* --------------------------------------------------------------- conditions
\* Condition shapes of the question graph.
CondValue(n, x) == [name |-> n, op |-> "value", arg |-> x]
CondContains(n, w) == [name |-> n, op |-> "contains", arg |-> Word(w)]
CondDoesNotContain(n, w) == [name |-> n, op |-> "doesNotContain", arg |-> Word(w)]

testSingleCondition_arrayOnly(cond, answers) ==
    LET a == answers[cond.name]
    IN CASE cond.op = "value" ->
                IF cond.arg.k = "array"
                THEN a.k = "string" /\ Len(a.v) = 1 /\ a.v[1] \in Range(cond.arg.v)
                ELSE a = cond.arg
         [] cond.op = "contains" -> a.k = "array" /\ cond.arg.v[1] \in Range(a.v)
         [] cond.op = "doesNotContain" ->
                a.k = "array" /\ cond.arg.v[1] \notin Range(a.v)
         [] OTHER -> FALSE

\* One atomic predicate against an answer set.
testSingleCondition(cond, answers) ==
    LET a == answers[cond.name]
    IN CASE cond.op = "value" ->
                IF cond.arg.k = "array"
                THEN a.k = "string" /\ Len(a.v) = 1 /\ a.v[1] \in Range(cond.arg.v)
                ELSE a = cond.arg
         [] cond.op = "contains" -> a.k = "array" /\ cond.arg.v[1] \in Range(a.v)
         [] cond.op = "doesNotContain" ->
                ~(a.k = "array" /\ cond.arg.v[1] \in Range(a.v))
         [] OTHER -> FALSE

\* No condition (the empty list) is true; a list is the conjunction.
testCondition(condition, answers) ==
    \A i \in 1..Len(condition) : testSingleCondition(condition[i], answers)


\* ----------------------------------------------------------- question graph
\* A question record: its name, its condition (a list, empty when absent),
\* the optional and expert flags, and the names of its validator (action)
\* and of its resultTransform ("none" when absent).
Question(n, c, opt, exp, act, tr) ==
    [name |-> n, condition |-> c, optional |-> opt, expert |-> exp,
     action |-> act, resultTransform |-> tr]

IsAdapter == <<CondContains("features", "adapter")>>

\* The two records named "type".
typeAdapterCondition == <<CondContains("features", "adapter")>>
typeVisCondition_contains == <<CondContains("features", "vis")>>
typeVisCondition == <<CondDoesNotContain("features", "adapter")>>

\* The two records named "tools".
toolsJavaScriptCondition == <<CondValue("language", Word("JavaScript"))>>
toolsTypeScriptCondition == <<CondValue("language", Word("TypeScript"))>>

\* "Let's get started with a few questions about your project!"
groupProject ==
    << Question("adapterName", <<>>, FALSE, FALSE, "checkAdapterName", "transformAdapterName"),
       Question("title", <<>>, FALSE, FALSE, "checkTitle", "none"),
       Question("description", <<>>, TRUE, FALSE, "none", "transformDescription"),
       Question("keywords", <<>>, TRUE, FALSE, "none", "transformKeywords"),
       Question("contributors", <<>>, TRUE, FALSE, "none", "transformContributors"),
       Question("icon", <<CondValue("cli", Bool(FALSE))>>, TRUE, FALSE, "none", "none") >>

\* "Nice! Let's get technical..."
groupTechnical ==
    << Question("expert", <<>>, TRUE, FALSE, "none", "none"),
       Question("features", <<>>, FALSE, FALSE, "checkMinSelections", "none"),
       Question("adminFeatures", IsAdapter, FALSE, TRUE, "none", "none"),
       Question("type", typeAdapterCondition, FALSE, FALSE, "none", "none"),
       Question("type", typeVisCondition, FALSE, FALSE, "none", "none"),
       Question("startMode", IsAdapter, FALSE, TRUE, "none", "none"),
       Question("scheduleStartOnChange", <<CondValue("startMode", Word("schedule"))>>,
                FALSE, TRUE, "none", "none"),
       Question("connectionType", IsAdapter, TRUE, FALSE, "none", "none"),
       Question("dataSource", IsAdapter, TRUE, FALSE, "none", "none"),
       Question("connectionIndicator", IsAdapter, FALSE, TRUE, "none", "none"),
       Question("adapterSettings",
                <<CondContains("features", "adapter"), CondValue("cli", Bool(FALSE))>>,
                TRUE, FALSE, "none", "none"),
       Question("language", IsAdapter, FALSE, FALSE, "none", "none"),
       Question("adminReact", IsAdapter, FALSE, FALSE, "none", "none"),
       Question("tabReact", <<CondContains("adminFeatures", "tab")>>,
                FALSE, FALSE, "none", "none"),
       Question("tools", toolsJavaScriptCondition, FALSE, FALSE, "none", "none"),
       Question("tools", toolsTypeScriptCondition, FALSE, FALSE,
                "checkTypeScriptTools", "none"),
       Question("indentation", IsAdapter, FALSE, FALSE, "none", "none"),
       Question("quotes", IsAdapter, FALSE, FALSE, "none", "none"),
       Question("es6class", IsAdapter, FALSE, TRUE, "none", "none") >>

\* "Almost done! Just a few administrative details..."
groupAdministrative ==
    << Question("authorName", <<>>, FALSE, FALSE, "checkAuthorName", "none"),
       Question("authorGithub", <<>>, FALSE, FALSE, "checkAuthorName", "none"),
       Question("authorEmail", <<>>, FALSE, FALSE, "checkEmail", "none"),
       Question("gitRemoteProtocol", <<>>, FALSE, TRUE, "none", "none"),
       Question("gitCommit", <<CondValue("cli", Bool(TRUE))>>, FALSE, TRUE, "none", "none"),
       Question("license", <<>>, FALSE, FALSE, "none", "none"),
       Question("ci", <<>>, FALSE, TRUE, "none", "none"),
       Question("dependabot", <<>>, FALSE, TRUE, "none", "none") >>

questions_reversed ==
    LET all == groupProject \o groupTechnical \o groupAdministrative
    IN [i \in 1..Len(all) |-> all[Len(all) + 1 - i]]

\* Only the questions: the groups flattened, declaration order kept.
questions == groupProject \o groupTechnical \o groupAdministrative

QIdx == 1..Len(questions)
QuestionNames == {questions[i].name : i \in QIdx}
\* The keys of an answer set: the question names and the caller's cli flag.
AnswerNames == QuestionNames \cup {"cli"}


\* ---------------------------------------------------- strings (token level)
RECURSIVE TrimStart(_)
TrimStart(s) == IF s # <<>> /\ Head(s) = " " THEN TrimStart(Tail(s)) ELSE s

RECURSIVE TrimEnd(_)
TrimEnd(s) ==
    IF s # <<>> /\ s[Len(s)] = " " THEN TrimEnd(SubSeq(s, 1, Len(s) - 1)) ELSE s

\* String.prototype.trim
Trim(s) == TrimEnd(TrimStart(s))

\* The pieces of s between its commas, each trimmed, the empty ones dropped;
\* a piece is kept as its first word (the inputs modelled have one-word pieces).
RECURSIVE SplitTrimmed(_, _)
SplitTrimmed(s, piece) ==
    LET done == IF Trim(piece) = <<>> THEN <<>> ELSE <<Head(Trim(piece))>>
    IN IF s = <<>> THEN done
       ELSE IF Head(s) = "," THEN done \o SplitTrimmed(Tail(s), <<>>)
       ELSE SplitTrimmed(Tail(s), Append(piece, Head(s)))

\* The elements of s, each kept at its first occurrence.
RECURSIVE Unique(_)
Unique(s) ==
    IF s = <<>> THEN <<>>
    ELSE LET r == Unique(SubSeq(s, 1, Len(s) - 1))
         IN IF s[Len(s)] \in Range(r) THEN r ELSE Append(r, s[Len(s)])

\* ------------------------------------------------- validators (the actions)
\* A validator returns an error string, or a non-string (here PASS).
PASS == ""

isNotEmpty(x) == ~IsNullish(x) /\ Len(x.v) > 0 /\ Len(Trim(x.v)) > 0

ForbiddenTitleWords == {"adapter", "Adapter", "iobroker", "ioBroker"}

checkTitle(title) ==
    IF ~isNotEmpty(title) THEN "Please enter a title!"
    ELSE IF Range(title.v) \cap ForbiddenTitleWords # {}
         THEN "The title must not contain the words \"ioBroker\" or \"adapter\"!"
         ELSE PASS

checkAdapterName(name) ==
    IF ~isNotEmpty(name) THEN "Please enter an adapter name!" ELSE PASS

checkAuthorName(name) ==
    IF ~isNotEmpty(name) THEN "Please enter a valid name!" ELSE PASS

checkEmail(email) ==
    IF ~isNotEmpty(email) \/ "@" \notin Range(email.v)
    THEN "Please enter a valid email address!" ELSE PASS

\* checkMinSelections.bind(undefined, "feature", 1)
checkMinSelections(selected) ==
    IF selected.k = "array" /\ Len(selected.v) >= 1 THEN PASS
    ELSE "Please enter at least 1 feature(s)!"

checkTypeScriptTools(choices) ==
    IF choices.k = "array" /\ "Prettier" \in Range(choices.v)
       /\ "ESLint" \notin Range(choices.v)
    THEN "ESLint must be selected to use Prettier!"
    ELSE PASS

\* q.action(value)
RunAction(action, value) ==
    CASE action = "checkTitle" -> checkTitle(value)
      [] action = "checkAdapterName" -> checkAdapterName(value)
      [] action = "checkAuthorName" -> checkAuthorName(value)
      [] action = "checkEmail" -> checkEmail(value)
      [] action = "checkMinSelections" -> checkMinSelections(value)
      [] action = "checkTypeScriptTools" -> checkTypeScriptTools(value)
      [] OTHER -> PASS

\* ------------------------------------------------------ result transforms
transformAdapterName(name) ==
    IF name.k = "string" /\ name.v # <<>> /\ Head(name.v) \in {"ioBroker.", "iobroker."}
    THEN Str(Tail(name.v)) ELSE name

transformDescription(description) ==
    IF description.k # "string" THEN description
    ELSE IF Trim(description.v) = <<>> THEN UNDEF ELSE Str(Trim(description.v))

transformKeywords(keywords) ==
    IF keywords.k # "string" THEN keywords
    ELSE Arr(Unique(SplitTrimmed(keywords.v, <<>>)))

transformContributors(contributors) ==
    IF contributors.k # "string" THEN contributors
    ELSE Arr(Unique(SplitTrimmed(contributors.v, <<>>)))

\* q.resultTransform(value)
RunTransform(transform, value) ==
    CASE transform = "transformAdapterName" -> transformAdapterName(value)
      [] transform = "transformDescription" -> transformDescription(value)
      [] transform = "transformKeywords" -> transformKeywords(value)
      [] transform = "transformContributors" -> transformContributors(value)
      [] OTHER -> value


\* ------------------------------------------------------------ checkAnswers
NoError == [msg |-> "", name |-> ""]
\* new Error(`Missing answer "${q.name}"!`)
MissingAnswer(n) == [msg |-> "Missing answer \"<name>\"!", name |-> n]
\* new Error(`Extraneous answer "${q.name}" given!`)
ExtraneousAnswer(n) == [msg |-> "Extraneous answer \"<name>\" given!", name |-> n]
\* new Error(testResult)
ValidationError(text) == [msg |-> text, name |-> ""]
\* The TypeError a migrate function throws, propagated by the session.
MigrateError(what) == [msg |-> "TypeError: <what>", name |-> what]

\* !q.optional && conditionFulfilled && answer == undefined
IsMissing_strictUndefined(q, answers) ==
    /\ ~q.optional
    /\ testCondition(q.condition, answers)
    /\ answers[q.name] = UNDEF

IsMissing_noCondition(q, answers) ==
    /\ ~q.optional
    /\ IsNullish(answers[q.name])

IsMissing_falsy(q, answers) ==
    /\ ~q.optional
    /\ testCondition(q.condition, answers)
    /\ (IsNullish(answers[q.name]) \/ answers[q.name] = Str(<<>>))

IsMissing_expertExempt(q, answers) ==
    /\ ~q.optional
    /\ ~q.expert
    /\ testCondition(q.condition, answers)
    /\ IsNullish(answers[q.name])

IsMissing(q, answers) ==
    /\ ~q.optional
    /\ testCondition(q.condition, answers)
    /\ IsNullish(answers[q.name])

\* !conditionFulfilled && answer != undefined
IsExtraneous(q, answers) ==
    /\ ~testCondition(q.condition, answers)
    /\ ~IsNullish(answers[q.name])

\* questions.filter((qq) => qq.name === q.name).length > 0
HasBranches_moreThanOne(q) ==
    Cardinality({i \in QIdx : questions[i].name = q.name}) > 1

HasBranches_never(q) == FALSE

HasBranches(q) ==
    Cardinality({i \in QIdx : questions[i].name = q.name}) > 0

\* The loop of checkAnswers from question i on: the error thrown, or NoError.
RECURSIVE checkAnswersFrom(_, _)
checkAnswersFrom(i, answers) ==
    IF i > Len(questions) THEN NoError
    ELSE LET q == questions[i]
         IN IF IsMissing(q, answers) THEN MissingAnswer(q.name)
            ELSE IF IsExtraneous(q, answers)
                 THEN IF HasBranches(q)
                      THEN checkAnswersFrom(i + 1, answers)
                      ELSE ExtraneousAnswer(q.name)
                 ELSE checkAnswersFrom(i + 1, answers)

checkAnswers(answers) == checkAnswersFrom(1, answers)

\* ------------------------------------------------ formatAnswers (one step)
\* Whether the loop body of formatAnswers transforms question i.
FormatApplies(i, answers) ==
    /\ testCondition(questions[i].condition, answers)
    /\ ~IsNullish(answers[questions[i].name])
    /\ questions[i].resultTransform # "none"

\* ---------------------------------------------- validateAnswers (one step)
\* Whether the loop body of validateAnswers reaches q.action for question i.
ValidateApplies_ignoreCondition(i, answers, skip) ==
    /\ questions[i].action # "none"
    /\ questions[i].name \notin skip

ValidateApplies_ignoreSkip(i, answers, skip) ==
    /\ testCondition(questions[i].condition, answers)
    /\ questions[i].action # "none"

ValidateApplies(i, answers, skip) ==
    /\ testCondition(questions[i].condition, answers)
    /\ questions[i].action # "none"
    /\ questions[i].name \notin skip

\* `for (const q of questions)`: the first of the indices S, or 0 at the end.
NextIndex(S) ==
    IF S = {} THEN 0 ELSE CHOOSE i \in S : \A j \in S : i <= j


\* ------------------------------------------------------- migration context
\* A MigrationContext is a record of what its collaborators report of the
\* project being migrated: `files` (paths as [dir, name], a name being its
\* base followed by its extensions), `devDependencies`, `mainFile` (the lines
\* of the entry-point file, each a sequence of tokens), the results of the
\* two code-style heuristics, and the fields of io-package.json (io...) and
\* package.json (pkg...) the questions read.
File(dir, name) == [dir |-> dir, name |-> name]

\* Whether sequence p is a prefix of sequence s.
IsPrefix(p, s) == Len(p) <= Len(s) /\ SubSeq(s, 1, Len(p)) = p
\* Whether sequence p is a suffix of sequence s.
IsSuffix(p, s) == Len(p) <= Len(s) /\ SubSeq(s, Len(s) - Len(p) + 1, Len(s)) = p

\* ctx.directoryExists(dir): a directory exists when it holds a file.
directoryExists(ctx, dir) == \E f \in ctx.files : IsPrefix(dir, f.dir)
\* ctx.fileExists(file)
fileExists(ctx, f) == f \in ctx.files
\* ctx.hasDevDependency(name)
hasDevDependency(ctx, name) == name \in ctx.devDependencies

\* JavaScript truthiness of a value, and `a || b`.
Falsy(x) == IsNullish(x) \/ x = Str(<<>>) \/ x = Bool(FALSE)
Or(a, b) == IF Falsy(a) THEN b ELSE a

\* A call that throws (a TypeError of the runtime).
Thrown(what) == [k |-> "throw", v |-> <<what>>]
IsThrown(x) == x.k = "throw"

\* Array.prototype.join(",") on the tokens of an array of one-word strings.
RECURSIVE JoinComma(_)
JoinComma(s) ==
    IF s = <<>> THEN <<>>
    ELSE IF Len(s) = 1 THEN <<s[1]>>
    ELSE <<s[1], ",">> \o JoinComma(Tail(s))

\* The elements of s that are truthy (non-empty) strings.
RECURSIVE FilterTruthy(_)
FilterTruthy(s) ==
    IF s = <<>> THEN <<>>
    ELSE (IF Head(s) = "" THEN <<>> ELSE <<Head(s)>>) \o FilterTruthy(Tail(s))

\* The license table: display name by SPDX id.
LicenseIds == {"MIT", "Apache-2.0"}
LicenseName(id) == IF id = "MIT" THEN "MIT License" ELSE "Apache License 2.0"

\* ------------------------------------------------ the migrate functions
migrateAdapterName(ctx) == ctx.ioName

migrateTitle(ctx) == Or(ctx.ioTitleLangEn, ctx.ioTitle)

\* common.desc is a string or an object with an `en` entry (kind "object",
\* v the tokens of en).
migrateDescription(ctx) ==
    LET en == IF ctx.ioDesc.k = "object" THEN Str(ctx.ioDesc.v) ELSE UNDEF
    IN Or(en, ctx.ioDesc)

migrateKeywords(ctx) ==
    LET k == Or(ctx.ioKeywords, Or(ctx.pkgCommonKeywords, Arr(<<>>)))
    IN IF k.k = "array" THEN Str(JoinComma(k.v)) ELSE Thrown("join is not a function")

migrateContributors(ctx) ==
    LET c == Or(ctx.pkgContributors, Arr(<<>>))
    IN IF c.k = "array" THEN Str(JoinComma(FilterTruthy(c.v)))
       ELSE Thrown("map is not a function")

migrateExpert(ctx) == Word("yes")

migrateFeatures(ctx) ==
    Arr((IF directoryExists(ctx, <<"admin">>) THEN <<"adapter">> ELSE <<>>)
        \o (IF directoryExists(ctx, <<"widgets">>) THEN <<"vis">> ELSE <<>>))

migrateAdminFeatures(ctx) ==
    Arr((IF fileExists(ctx, File(<<"admin">>, <<"tab", ".html">>))
            \/ fileExists(ctx, File(<<"admin">>, <<"tab_m", ".html">>))
         THEN <<"tab">> ELSE <<>>)
        \o (IF fileExists(ctx, File(<<"admin">>, <<"custom", ".html">>))
               \/ fileExists(ctx, File(<<"admin">>, <<"custom_m", ".html">>))
            THEN <<"custom">> ELSE <<>>))

migrateType(ctx) == ctx.ioType

migrateStartMode(ctx) == ctx.ioMode

migrateScheduleStartOnChange(ctx) ==
    IF Falsy(ctx.ioAllowInit) THEN Word("no") ELSE Word("yes")

migrateConnectionType(ctx) == ctx.ioConnectionType

migrateDataSource(ctx) == ctx.ioDataSource

migrateConnectionIndicator(ctx) ==
    IF ctx.ioInstanceObjects.k = "array"
       /\ "info.connection" \in Range(ctx.ioInstanceObjects.v)
    THEN Word("yes") ELSE Word("no")

\* ctx.hasFilesWithExtension("src", ".ts", f => !f.endsWith(".d.ts"))
HasTypeScriptSource_anyTs(ctx) ==
    \E f \in ctx.files : IsPrefix(<<"src">>, f.dir) /\ IsSuffix(<<".ts">>, f.name)

HasTypeScriptSource(ctx) ==
    \E f \in ctx.files :
        /\ IsPrefix(<<"src">>, f.dir)
        /\ IsSuffix(<<".ts">>, f.name)
        /\ ~IsSuffix(<<".d", ".ts">>, f.name)

migrateLanguage(ctx) ==
    IF HasTypeScriptSource(ctx) THEN Word("TypeScript") ELSE Word("JavaScript")

migrateAdminReact(ctx) ==
    IF \E f \in ctx.files :
          /\ IsPrefix(<<"admin", "src">>, f.dir)
          /\ \/ IsSuffix(<<".jsx">>, f.name) /\ ~IsSuffix(<<"tab", ".jsx">>, f.name)
             \/ IsSuffix(<<".tsx">>, f.name) /\ ~IsSuffix(<<"tab", ".tsx">>, f.name)
    THEN Word("yes") ELSE Word("no")

migrateTabReact(ctx) ==
    IF fileExists(ctx, File(<<"admin", "src">>, <<"tab", ".jsx">>))
       \/ fileExists(ctx, File(<<"admin", "src">>, <<"tab", ".tsx">>))
    THEN Word("yes") ELSE Word("no")

migrateToolsJavaScript(ctx) ==
    Arr((IF hasDevDependency(ctx, "eslint") THEN <<"ESLint">> ELSE <<>>)
        \o (IF hasDevDependency(ctx, "typescript") THEN <<"type checking">> ELSE <<>>)
        \o (IF directoryExists(ctx, <<".devcontainer">>) THEN <<"devcontainer">> ELSE <<>>))

migrateToolsTypeScript(ctx) ==
    Arr((IF hasDevDependency(ctx, "eslint") THEN <<"ESLint">> ELSE <<>>)
        \o (IF hasDevDependency(ctx, "prettier") THEN <<"Prettier">> ELSE <<>>)
        \o (IF hasDevDependency(ctx, "nyc") THEN <<"code coverage">> ELSE <<>>)
        \o (IF directoryExists(ctx, <<".devcontainer">>) THEN <<"devcontainer">> ELSE <<>>))

migrateIndentation(ctx) == IF ctx.analyzeTab THEN Word("Tab") ELSE Str(<<"Space", " ", "(4)">>)

migrateQuotes(ctx) == IF ctx.analyzeDoubleQuotes THEN Word("double") ELSE Word("single")

\* The tokens of a line after its leading blanks and tabs.
RECURSIVE SkipIndent(_)
SkipIndent(line) ==
    IF line # <<>> /\ Head(line) \in {" ", "\t"} THEN SkipIndent(Tail(line)) ELSE line

\* /^[ \t]*class/gm against the main file: the words that begin with "class".
ClassWords == {"class", "classes"}

MatchesClass(mainFile) ==
    \E l \in 1..Len(mainFile) :
        SkipIndent(mainFile[l]) # <<>> /\ Head(SkipIndent(mainFile[l])) \in ClassWords

migrateEs6class(ctx) ==
    IF MatchesClass(ctx.mainFile) THEN Word("yes") ELSE Word("no")

migrateAuthorName(ctx) == ctx.pkgAuthorName

\* extIcon?.replace(/^.+?\.com\/([^\/]+)\/.+$/, "$1"), the icon URL being the
\* tokens <<host, ".com/", owner, "/", rest>> when it has that shape.
migrateAuthorGithub(ctx) ==
    LET s == ctx.ioExtIcon
    IN IF s.k # "string" THEN UNDEF
       ELSE IF Len(s.v) = 5 /\ s.v[2] = ".com/" /\ s.v[4] = "/" THEN Word(s.v[3])
       ELSE s

migrateAuthorEmail(ctx) == ctx.pkgAuthorEmail

migrateGitRemoteProtocol(ctx) ==
    IF ctx.pkgRepositoryUrl.k = "string" /\ IsPrefix(<<"git@">>, ctx.pkgRepositoryUrl.v)
    THEN Word("SSH") ELSE Word("HTTPS")

migrateGitCommit(ctx) == Word("no")

migrateLicense(ctx) ==
    IF ctx.pkgLicense.k = "string" /\ Len(ctx.pkgLicense.v) = 1
       /\ ctx.pkgLicense.v[1] \in LicenseIds
    THEN Str(<<LicenseName(ctx.pkgLicense.v[1])>>) ELSE UNDEF

migrateCi(ctx) ==
    IF fileExists(ctx, File(<<>>, <<".travis", ".yml">>))
       /\ ~directoryExists(ctx, <<".github", "workflows">>)
    THEN Word("travis") ELSE Word("gh-actions")

migrateDependabot(ctx) ==
    IF fileExists(ctx, File(<<".github">>, <<"dependabot", ".yml">>))
    THEN Word("yes") ELSE Word("no")

\* typeof q.migrate === "function": every question but the two web-only ones.
HasMigrate(q) == q.name \notin {"icon", "adapterSettings"}

\* q.migrate(context, answers, q); no migrate function reads the answers.
Migrate(q, ctx, answers) ==
    CASE q.name = "adapterName" -> migrateAdapterName(ctx)
      [] q.name = "title" -> migrateTitle(ctx)
      [] q.name = "description" -> migrateDescription(ctx)
      [] q.name = "keywords" -> migrateKeywords(ctx)
      [] q.name = "contributors" -> migrateContributors(ctx)
      [] q.name = "expert" -> migrateExpert(ctx)
      [] q.name = "features" -> migrateFeatures(ctx)
      [] q.name = "adminFeatures" -> migrateAdminFeatures(ctx)
      [] q.name = "type" -> migrateType(ctx)
      [] q.name = "startMode" -> migrateStartMode(ctx)
      [] q.name = "scheduleStartOnChange" -> migrateScheduleStartOnChange(ctx)
      [] q.name = "connectionType" -> migrateConnectionType(ctx)
      [] q.name = "dataSource" -> migrateDataSource(ctx)
      [] q.name = "connectionIndicator" -> migrateConnectionIndicator(ctx)
      [] q.name = "language" -> migrateLanguage(ctx)
      [] q.name = "adminReact" -> migrateAdminReact(ctx)
      [] q.name = "tabReact" -> migrateTabReact(ctx)
      [] q.name = "tools" /\ q.condition = toolsJavaScriptCondition ->
            migrateToolsJavaScript(ctx)
      [] q.name = "tools" -> migrateToolsTypeScript(ctx)
      [] q.name = "indentation" -> migrateIndentation(ctx)
      [] q.name = "quotes" -> migrateQuotes(ctx)
      [] q.name = "es6class" -> migrateEs6class(ctx)
      [] q.name = "authorName" -> migrateAuthorName(ctx)
      [] q.name = "authorGithub" -> migrateAuthorGithub(ctx)
      [] q.name = "authorEmail" -> migrateAuthorEmail(ctx)
      [] q.name = "gitRemoteProtocol" -> migrateGitRemoteProtocol(ctx)
      [] q.name = "gitCommit" -> migrateGitCommit(ctx)
      [] q.name = "license" -> migrateLicense(ctx)
      [] q.name = "ci" -> migrateCi(ctx)
      [] q.name = "dependabot" -> migrateDependabot(ctx)
      [] OTHER -> UNDEF

\* -------------------------------------------- migration inference (one step)
\* Whether the inference loop calls the migrate function of question i.
InferApplies_ignoreCondition(i, answers) == HasMigrate(questions[i])

InferApplies(i, answers) ==
    /\ testCondition(questions[i].condition, answers)
    /\ HasMigrate(questions[i])

\* ------------------------------------------------------ migration contexts
\* The project the migration sessions start from: a TypeScript adapter.
BaseContext ==
    [files |-> {File(<<"admin">>, <<"index_m", ".html">>),
                File(<<"src">>, <<"main", ".ts">>),
                File(<<"src", "lib">>, <<"adapter-config", ".d", ".ts">>),
                File(<<".github", "workflows">>, <<"test-and-release", ".yml">>),
                File(<<".github">>, <<"dependabot", ".yml">>)},
     devDependencies |-> {"eslint", "typescript"},
     mainFile |-> << <<"import", " ", "utils">>,
                     <<"//", " ", "class", " ", "Test">>,
                     <<"function", " ", "startAdapter">> >>,
     analyzeTab |-> TRUE,
     analyzeDoubleQuotes |-> TRUE,
     ioName |-> Word("test-adapter"),
     ioTitleLangEn |-> UNDEF,
     ioTitle |-> Str(<<"Is", " ", "used">>),
     ioDesc |-> [k |-> "object", v |-> <<"Is", " ", "used">>],
     ioKeywords |-> Arr(<<"test", "smart">>),
     ioType |-> Word("general"),
     ioMode |-> Word("daemon"),
     ioAllowInit |-> UNDEF,
     ioConnectionType |-> Word("local"),
     ioDataSource |-> Word("push"),
     ioInstanceObjects |-> Arr(<<>>),
     ioExtIcon |-> Str(<<"https://raw.githubusercontent", ".com/", "AlCalzone", "/",
                         "ioBroker.test-adapter/master/admin/test-adapter.png">>),
     pkgCommonKeywords |-> UNDEF,
     pkgContributors |-> Arr(<<"Bill", "">>),
     pkgAuthorName |-> Str(<<"Al", " ", "Calzone">>),
     pkgAuthorEmail |-> Str(<<"al", "@", "calzo.ne">>),
     pkgRepositoryUrl |-> Str(<<"https://", "github.com/AlCalzone/ioBroker.test-adapter">>),
     pkgLicense |-> Word("MIT")]

ContextFields == DOMAIN BaseContext

\* The files and development dependencies a project may or may not have.
OptionalFiles ==
    {File(<<"admin">>, <<"index_m", ".html">>),
     File(<<"widgets">>, <<"test-adapter", ".html">>),
     File(<<"src">>, <<"main", ".ts">>),
     File(<<"admin">>, <<"tab", ".html">>)}
OptionalDevDependencies == {"prettier"}

\* The values a project may have in a field, besides the base context's.
ContextValues(f) ==
    CASE f = "files" ->
            {(BaseContext.files \ {x}) \cup ({x} \ BaseContext.files) : x \in OptionalFiles}
            \cup {(BaseContext.files \ S) \cup (S \ BaseContext.files) :
                    S \in {{File(<<"admin">>, <<"index_m", ".html">>),
                            File(<<"widgets">>, <<"test-adapter", ".html">>)}}}
      [] f = "devDependencies" ->
            {BaseContext.devDependencies \cup {d} : d \in OptionalDevDependencies}
      [] f = "mainFile" ->
            { << <<"class", " ", "Test", " ", "extends", " ", "utils.Adapter">> >>,
              << <<"import", " ", "utils">>, <<"\t", " ", "classes", " ", "=", " ", "1">> >> }
      [] f = "ioTitle" -> {UNDEF}
      [] f = "ioKeywords" -> {Str(<<"test", ",", "smart">>)}
      [] f = "ioMode" -> {Word("schedule")}
      [] f = "ioInstanceObjects" -> {UNDEF, Arr(<<"info", "info.connection">>)}
      [] OTHER -> {}

\* In how many fields two contexts differ.
ContextDistance(a, b) == Cardinality({f \in ContextFields : a[f] # b[f]})


\* ------------------------------------------------------------ answer sets
EmptyAnswers == [n \in AnswerNames |-> UNDEF]

\* An answer set given as a record of its defined entries.
AnswerSet(r) ==
    [n \in AnswerNames |-> IF n \in DOMAIN r THEN r[n] ELSE UNDEF]

\* baseAnswers of the test suite: a TypeScript adapter.
baseAnswers ==
    AnswerSet([adapterName |-> Word("test-adapter"),
               title |-> Str(<<"Is", " ", "used">>),
               startMode |-> Word("daemon"),
               features |-> Arr(<<"adapter">>),
               connectionIndicator |-> Word("no"),
               connectionType |-> Word("local"),
               dataSource |-> Word("push"),
               adminFeatures |-> Arr(<<>>),
               type |-> Word("general"),
               language |-> Word("TypeScript"),
               adminReact |-> Word("no"),
               tabReact |-> Word("no"),
               tools |-> Arr(<<"ESLint">>),
               indentation |-> Word("Tab"),
               quotes |-> Word("double"),
               es6class |-> Word("no"),
               authorName |-> Str(<<"Al", " ", "Calzone">>),
               authorGithub |-> Word("AlCalzone"),
               authorEmail |-> Str(<<"al", "@", "calzo.ne">>),
               gitRemoteProtocol |-> Word("HTTPS"),
               ci |-> Word("gh-actions"),
               dependabot |-> Word("yes"),
               license |-> Word("MIT License")])

\* The "Widget" answer set of the test suite: a VIS project.
widgetAnswers ==
    AnswerSet([adapterName |-> Word("test-widget"),
               title |-> Str(<<"Is", " ", "used">>),
               features |-> Arr(<<"vis">>),
               type |-> Word("visualization-widgets"),
               indentation |-> Word("Tab"),
               quotes |-> Word("double"),
               authorName |-> Str(<<"Al", " ", "Calzone">>),
               authorGithub |-> Word("AlCalzone"),
               authorEmail |-> Str(<<"al", "@", "calzo.ne">>),
               gitRemoteProtocol |-> Word("HTTPS"),
               ci |-> Word("gh-actions"),
               dependabot |-> Word("yes"),
               license |-> Word("MIT License")])

\* The families of answer sets the caller assembles: a base answer set and the
\* entries the caller overrides or leaves out ({...baseAnswers, title: ""}).
Scenarios ==
    << [base |-> baseAnswers,
        names |-> {"title", "features", "type", "language", "tools", "adminFeatures",
                   "tabReact", "startMode", "scheduleStartOnChange", "license", "cli"}],
       [base |-> widgetAnswers,
        names |-> {"title", "features", "type", "language", "tools", "adminFeatures",
                   "indentation", "cli"}],
       [base |-> baseAnswers,
        names |-> {"adapterName", "title", "description", "keywords", "contributors",
                   "features", "language", "tools", "authorName", "authorEmail"}],
       [base |-> baseAnswers,
        names |-> {"expert", "adminFeatures", "startMode", "connectionType",
                   "dataSource", "connectionIndicator", "es6class",
                   "gitRemoteProtocol", "ci", "dependabot"}],
       [base |-> EmptyAnswers, names |-> {}] >>

\* The last scenario is the migration session: the caller gives no answers,
\* the answer set is inferred from a migration context.
IsMigration(s) == s = Len(Scenarios)

\* The values a caller gives an entry besides leaving it out (UNDEF).
GivenValues(n) ==
    CASE n = "title" ->
            {NULL, Str(<<>>), Str(<<" ", " ", " ">>), Str(<<"Adapter", " ", "for", " ", "ioBroker">>)}
      [] n = "adapterName" -> {Str(<<>>), Str(<<"ioBroker.", "test">>)}
      [] n = "description" -> {Str(<<" ", " ">>), Str(<<" ", "short", " ">>)}
      [] n = "keywords" -> {Str(<<"this", ",", " ", "adapter", ",", ",", "this">>)}
      [] n = "contributors" -> {Str(<<"Bill", ",", " ", ",">>)}
      [] n = "features" ->
            {Arr(<<>>), Arr(<<"adapter">>), Arr(<<"vis">>), Arr(<<"adapter", "vis">>)}
      [] n = "adminFeatures" -> {Arr(<<>>), Arr(<<"tab">>)}
      [] n = "type" -> {Word("general"), Word("visualization-icons")}
      [] n = "startMode" -> {Word("daemon"), Word("schedule")}
      [] n = "scheduleStartOnChange" -> {Word("yes")}
      [] n = "language" -> {Word("JavaScript"), Word("TypeScript")}
      [] n = "tools" -> {Arr(<<"ESLint">>), Arr(<<"Prettier">>), Arr(<<"ESLint", "Prettier">>)}
      [] n = "authorName" -> {Str(<<>>)}
      [] n = "authorEmail" -> {Str(<<"al">>)}
      [] n = "cli" -> {Bool(TRUE), Bool(FALSE)}
      [] n = "tabReact" -> {Word("yes")}
      [] OTHER -> {}

\* The lists a caller passes as disableValidation.
SkipLists == {s \in SUBSET {"title", "tools"} : Cardinality(s) <= MaxSkip}

\* In how many entries two answer sets differ.
Distance(a, b) == Cardinality({n \in AnswerNames : a[n] # b[n]})

\* ------------------------------------------------------------------- state
VARIABLES
    scenario,           \* which family of answer sets the caller assembles
    answers,            \* the answer set (mutated by formatAnswers)
    given,              \* the answer set as passed to createAdapter
    disableValidation,  \* the names passed as disableValidation
    pc,                 \* "context", "infer", "collect", "format", "validate",
                        \* "render", "done", "failed"
    qi,                 \* the loop index of the running pipeline stage
    pending,            \* the question whose validator is awaited, or 0
    invoked,            \* the questions whose validators were invoked, in order
    error,              \* the error the session was rejected with
    rendered,           \* the answer sets handed to the rendering collaborator
    formatted,          \* the questions whose resultTransform ran, in order
    ctx,                \* the migration context (read-only once inference starts)
    migrated            \* the questions whose migrate function was called, in order

vars == <<scenario, answers, given, disableValidation, pc, qi, pending, invoked,
          error, rendered, formatted, ctx, migrated>>

Init ==
    /\ scenario \in 1..Len(Scenarios)
    /\ answers = Scenarios[scenario].base
    /\ given = EmptyAnswers
    /\ disableValidation = {}
    /\ pc = IF IsMigration(scenario) THEN "context" ELSE "collect"
    /\ qi = 0
    /\ pending = 0
    /\ invoked = <<>>
    /\ error = NoError
    /\ rendered = <<>>
    /\ formatted = <<>>
    /\ ctx = BaseContext
    /\ migrated = <<>>

\* The project to migrate differs from the base project in field f.
SetContext(f, x) ==
    /\ pc = "context"
    /\ x # ctx[f]
    /\ ContextDistance([ctx EXCEPT ![f] = x], BaseContext) <= MaxEdits
    /\ ctx' = [ctx EXCEPT ![f] = x]
    /\ UNCHANGED <<scenario, answers, given, disableValidation, pc, qi, pending,
                   invoked, error, rendered, formatted, migrated>>

\* A migration session starts inference on an empty answer set.
StartMigration ==
    /\ pc = "context"
    /\ pc' = "infer"
    /\ qi' = 1
    /\ answers' = EmptyAnswers
    /\ UNCHANGED <<scenario, given, disableValidation, pending, invoked, error,
                   rendered, formatted, ctx, migrated>>

\* Migration inference: the loop up to and including its next awaited migrate
\* call, whose result is stored unless it is undefined, or to its return, after
\* which the inferred answer set is passed to createAdapter.
InferNext ==
    /\ pc = "infer"
    /\ LET j == NextIndex({i \in QIdx : i >= qi /\ InferApplies(i, answers)})
       IN IF j = 0
          THEN /\ pc' = "collect"
               /\ qi' = 0
               /\ UNCHANGED <<answers, migrated, error>>
          ELSE LET result == Migrate(questions[j], ctx, answers)
               IN /\ migrated' = Append(migrated, j)
                  /\ IF IsThrown(result)
                     THEN /\ pc' = "failed"
                          /\ error' = MigrateError(result.v[1])
                          /\ UNCHANGED <<answers, qi>>
                     ELSE /\ answers' = IF result = UNDEF THEN answers
                                        ELSE [answers EXCEPT ![questions[j].name] = result]
                          /\ qi' = j + 1
                          /\ UNCHANGED <<pc, error>>
    /\ UNCHANGED <<scenario, given, disableValidation, pending, invoked, rendered,
                   formatted, ctx>>

\* The caller changes or removes one entry: {...baseAnswers, title: ""}.
SetAnswer(n, x) ==
    /\ pc = "collect"
    /\ n \in Scenarios[scenario].names
    /\ x # answers[n]
    /\ Distance([answers EXCEPT ![n] = x], Scenarios[scenario].base) <= MaxEdits
    /\ answers' = [answers EXCEPT ![n] = x]
    /\ UNCHANGED <<ctx, migrated, formatted, scenario, given, disableValidation, pc, qi, pending, invoked,
                   error, rendered>>

CreateAdapter_noFormat(skip) ==
    /\ pc = "collect"
    /\ given' = answers
    /\ disableValidation' = skip
    /\ LET err == checkAnswers(answers)
       IN IF err # NoError
          THEN /\ pc' = "failed"
               /\ error' = err
               /\ qi' = 0
          ELSE /\ pc' = "validate"
               /\ error' = NoError
               /\ qi' = 1
    /\ UNCHANGED <<ctx, migrated, formatted, scenario, answers, pending, invoked, rendered>>

\* createAdapter(answers, disableValidation) up to its first await:
\* checkAnswers(answers), then the call of formatAnswers.
CreateAdapter(skip) ==
    /\ pc = "collect"
    /\ given' = answers
    /\ disableValidation' = skip
    /\ LET err == checkAnswers(answers)
       IN IF err # NoError
          THEN /\ pc' = "failed"
               /\ error' = err
               /\ qi' = 0
          ELSE /\ pc' = "format"
               /\ error' = NoError
               /\ qi' = 1
    /\ UNCHANGED <<ctx, migrated, formatted, scenario, answers, pending, invoked, rendered>>

FormatNext_returnsEarly ==
    /\ pc = "format"
    /\ LET j == NextIndex({i \in QIdx : i >= qi /\ FormatApplies(i, answers)})
       IN IF j = 0 \/ formatted # <<>>
          THEN /\ pc' = "validate"
               /\ qi' = 1
               /\ UNCHANGED <<answers, formatted>>
          ELSE /\ answers' = [answers EXCEPT ![questions[j].name] =
                                 RunTransform(questions[j].resultTransform, @)]
               /\ formatted' = Append(formatted, j)
               /\ qi' = j + 1
               /\ UNCHANGED pc
    /\ UNCHANGED <<ctx, migrated, scenario, given, disableValidation, pending, invoked, error, rendered>>

\* formatAnswers: the loop up to and including its next transform, or to its
\* return, which starts validateAnswers.
FormatNext ==
    /\ pc = "format"
    /\ LET j == NextIndex({i \in QIdx : i >= qi /\ FormatApplies(i, answers)})
       IN IF j = 0
          THEN /\ pc' = "validate"
               /\ qi' = 1
               /\ UNCHANGED <<answers, formatted>>
          ELSE /\ answers' = [answers EXCEPT ![questions[j].name] =
                                 RunTransform(questions[j].resultTransform, @)]
               /\ formatted' = Append(formatted, j)
               /\ qi' = j + 1
               /\ UNCHANGED pc
    /\ UNCHANGED <<ctx, migrated, scenario, given, disableValidation, pending, invoked, error, rendered>>

NextValidator_last(from, a, skip) ==
    LET S == {i \in QIdx : i >= from /\ ValidateApplies(i, a, skip)}
    IN IF S = {} THEN 0 ELSE CHOOSE i \in S : \A j \in S : i >= j

\* The next question, in declaration order, whose validator the loop calls.
NextValidator(from, a, skip) ==
    NextIndex({i \in QIdx : i >= from /\ ValidateApplies(i, a, skip)})

ValidateInvoke_trims ==
    /\ pc = "validate"
    /\ pending = 0
    /\ LET j == NextValidator(qi, answers, disableValidation)
       IN IF j = 0
          THEN /\ pc' = "render"
               /\ UNCHANGED <<pending, invoked, answers>>
          ELSE /\ pending' = j
               /\ invoked' = Append(invoked, j)
               /\ answers' = [answers EXCEPT ![questions[j].name] =
                                 IF @.k = "string" THEN Str(Trim(@.v)) ELSE @]
               /\ UNCHANGED pc
    /\ UNCHANGED <<ctx, migrated, formatted, scenario, given, disableValidation, qi, error, rendered>>

\* validateAnswers: the loop up to its next `await q.action(...)`, or to its
\* return, after which createAdapter goes on to create the files.
ValidateInvoke ==
    /\ pc = "validate"
    /\ pending = 0
    /\ LET j == NextValidator(qi, answers, disableValidation)
       IN IF j = 0
          THEN /\ pc' = "render"
               /\ UNCHANGED <<pending, invoked>>
          ELSE /\ pending' = j
               /\ invoked' = Append(invoked, j)
               /\ UNCHANGED pc
    /\ UNCHANGED <<ctx, migrated, formatted, scenario, answers, given, disableValidation, qi, error, rendered>>

\* typeof testResult === "string"
IsErrorResult(testResult) == testResult # PASS

ValidateResolve_continue ==
    /\ pc = "validate"
    /\ pending # 0
    /\ LET q == questions[pending]
           testResult == RunAction(q.action, answers[q.name])
       IN /\ error' = IF IsErrorResult(testResult) THEN ValidationError(testResult)
                      ELSE error
          /\ qi' = pending + 1
          /\ UNCHANGED pc
    /\ pending' = 0
    /\ UNCHANGED <<ctx, migrated, formatted, scenario, answers, given, disableValidation, invoked, rendered>>

\* validateAnswers resumes with the awaited result: a string is thrown.
ValidateResolve ==
    /\ pc = "validate"
    /\ pending # 0
    /\ LET q == questions[pending]
           testResult == RunAction(q.action, answers[q.name])
       IN IF IsErrorResult(testResult)
          THEN /\ pc' = "failed"
               /\ error' = ValidationError(testResult)
               /\ UNCHANGED qi
          ELSE /\ qi' = pending + 1
               /\ UNCHANGED <<pc, error>>
    /\ pending' = 0
    /\ UNCHANGED <<ctx, migrated, formatted, scenario, answers, given, disableValidation, invoked, rendered>>

\* The validated answer set is handed to the rendering collaborator.
Render ==
    /\ pc = "render"
    /\ rendered' = Append(rendered, answers)
    /\ pc' = "done"
    /\ UNCHANGED <<ctx, migrated, formatted, scenario, answers, given, disableValidation, qi, pending, invoked, error>>

Next ==
    \/ \E n \in AnswerNames : \E x \in GivenValues(n) \cup {UNDEF} : SetAnswer(n, x)
    \/ \E f \in ContextFields : \E x \in ContextValues(f) \cup {BaseContext[f]} :
          SetContext(f, x)
    \/ StartMigration
    \/ InferNext
    \/ \E skip \in SkipLists : CreateAdapter(skip)
    \/ FormatNext
    \/ ValidateInvoke
    \/ ValidateResolve
    \/ Render

Spec == Init /\ [][Next]_vars


\* ------------------------------------------------------------------ claims
\* Question i is active on answer set a: its condition evaluates true.
Active(i, a) == testCondition(questions[i].condition, a)

\* Question i is active and not optional and has no answer in a.
Unanswered(i, a) ==
    /\ Active(i, a)
    /\ ~questions[i].optional
    /\ a[questions[i].name] \in {UNDEF, NULL}

IsMigrateError(e) == e.msg = MigrateError("")["msg"]

IsCheckError(e) == e.msg \in {MissingAnswer("")["msg"], ExtraneousAnswer("")["msg"]}

\* createAdapter was called: `given` is the answer set checkAnswers saw.
Called == pc \notin {"context", "infer", "collect"} /\ ~IsMigrateError(error)

\* checkAnswers returned normally on `given`.
CheckPassed == Called /\ ~IsCheckError(error)

\* validateAnswers threw.
ValidationFailed == pc = "failed" /\ ~IsCheckError(error) /\ ~IsMigrateError(error)

\* The names carried by two or more question records.
MultiBranchNames ==
    {n \in QuestionNames : Cardinality({i \in QIdx : questions[i].name = n}) >= 2}

\* What question i's validator returns on the current answer.
ResultOf(i) == RunAction(questions[i].action, answers[questions[i].name])

LastInvoked == invoked[Len(invoked)]

ToolsTypeScriptIndex == CHOOSE i \in QIdx : questions[i].action = "checkTypeScriptTools"
TitleIndex == CHOOSE i \in QIdx : questions[i].name = "title"

\* C1: whenever some active, non-optional question has no answer (undefined
\* in the sense of the code's `== undefined`), checkAnswers throws
\* `Missing answer "<name>"!` naming the first such question in declaration
\* order.
C1_MissingAnswerNamesFirst ==
    Called =>
        LET U == {i \in QIdx : Unanswered(i, given)}
        IN \A i \in U :
              (\A j \in U : i <= j)
                  => (pc = "failed" /\ error = MissingAnswer(questions[i].name))

\* C1 witness: title and license are both left out and the error names title.
C1_Witness ==
    /\ pc = "failed"
    /\ given["title"] = UNDEF
    /\ given["license"] = UNDEF
    /\ error = MissingAnswer("title")

\* C2 (as claimed): no answer set that passes checkAnswers holds a defined
\* value for an inactive question whose name no other record shares.
C2_NoExtraneousSingleBranchPasses ==
    CheckPassed =>
        \A i \in QIdx :
            ~(/\ ~Active(i, given)
              /\ given[questions[i].name] \notin {UNDEF, NULL}
              /\ questions[i].name \notin MultiBranchNames)

\* C3: on every answer set on which checkAnswers returns normally, every
\* active non-optional question has an answer that is neither undefined nor
\* null.
C3_PassedImpliesRequiredAnswered ==
    CheckPassed =>
        \A i \in QIdx :
            (Active(i, given) /\ ~questions[i].optional)
                => given[questions[i].name] \notin {UNDEF, NULL}

\* C3 witness: checkAnswers returned on an adapter answer set, whose
\* conditional required questions (language, ...) are active and answered.
C3_Witness ==
    /\ CheckPassed
    /\ given["features"] = Arr(<<"adapter">>)
    /\ given["language"] = Word("JavaScript")
    /\ given["tools"] # UNDEF

\* Every validator that validateAnswers would call accepts its answer.
ValidatorsAccept(a, skip) ==
    \A i \in QIdx :
        (Active(i, a) /\ questions[i].action # "none" /\ questions[i].name \notin skip)
            => RunAction(questions[i].action, a[questions[i].name]) = PASS

C5_NoExtraneousForMultiBranch ==
    Called =>
        /\ ~(error.msg = ExtraneousAnswer("")["msg"] /\ error.name \in MultiBranchNames)
        /\ (/\ \E i \in QIdx : /\ questions[i].name \in MultiBranchNames
                               /\ ~Active(i, given)
                               /\ given[questions[i].name] \notin {UNDEF, NULL}
             /\ \A j \in QIdx : ~Unanswered(j, given))
               => CheckPassed

\* C5 witness: checkAnswers passed with tools given while neither tools branch
\* is active (no language), and with the adapter branch of type inactive.
C5_Witness ==
    /\ CheckPassed
    /\ MultiBranchNames = {"type", "tools"}
    /\ given["tools"] # UNDEF
    /\ given["type"] # UNDEF
    /\ \A i \in QIdx : questions[i].name = "tools" => ~Active(i, given)

\* The pairs of distinct question records that share a name.
BranchPairs ==
    {p \in QIdx \X QIdx : p[1] < p[2] /\ questions[p[1]].name = questions[p[2]].name}

\* C6: on every answer set, partial ones included, at most one of the question
\* records sharing a name has a condition that evaluates true.
C6_AtMostOneBranchActive ==
    \A p \in BranchPairs : ~(Active(p[1], answers) /\ Active(p[2], answers))

\* C6 witness: a partial answer set without features and without language.
C6_Witness ==
    /\ answers["features"] = UNDEF
    /\ answers["language"] = UNDEF
    /\ \E i \in QIdx : questions[i].name = "type" /\ Active(i, answers)


\* Question i is one whose validator validateAnswers has to call.
MustValidate(i) ==
    /\ Active(i, answers)
    /\ questions[i].action # "none"
    /\ questions[i].name \notin disableValidation

\* C7: validateAnswers is fail-fast in declaration order: validators are
\* invoked one at a time in declaration order, each only after every earlier
\* one has resolved to a non-string; the first string returned is thrown as
\* the error message, and it comes from the first failing validator, no later
\* validator having been invoked.
C7_ValidateFailFast ==
    /\ \A k \in 1..(Len(invoked) - 1) :
          /\ invoked[k] < invoked[k + 1]
          /\ ResultOf(invoked[k]) = PASS
    /\ pending # 0 => (invoked # <<>> /\ LastInvoked = pending)
    /\ ValidationFailed =>
          /\ invoked # <<>>
          /\ pending = 0
          /\ ResultOf(LastInvoked) # PASS
          /\ error = ValidationError(ResultOf(LastInvoked))
          /\ \A i \in QIdx :
                (MustValidate(i) /\ ResultOf(i) # PASS) => LastInvoked <= i

\* C7 witness: title and authorName both fail their validators and only the
\* title's message is thrown.
C7_Witness ==
    /\ pc = "failed"
    /\ checkTitle(answers["title"]) # PASS
    /\ checkAuthorName(answers["authorName"]) # PASS
    /\ disableValidation = {}
    /\ error = ValidationError("Please enter a title!")
    /\ LastInvoked = TitleIndex

\* C8: validateAnswers invokes a validator only of a question whose condition
\* evaluates true: checkTypeScriptTools runs only if language is
\* "TypeScript" (and then always, unless disabled or preceded by a failure),
\* rejecting Prettier without ESLint with "ESLint must be selected ...".
C8_ValidatorOnlyIfActive ==
    /\ \A k \in 1..Len(invoked) : Active(invoked[k], answers)
    /\ (\E k \in 1..Len(invoked) : invoked[k] = ToolsTypeScriptIndex)
          => answers["language"] = Word("TypeScript")
    /\ (pc \in {"render", "done"} /\ answers["language"] = Word("TypeScript")
            /\ "tools" \notin disableValidation)
          => /\ \E k \in 1..Len(invoked) : invoked[k] = ToolsTypeScriptIndex
             /\ ~("Prettier" \in Range(answers["tools"].v)
                    /\ "ESLint" \notin Range(answers["tools"].v))
    /\ (ValidationFailed /\ LastInvoked = ToolsTypeScriptIndex)
          => error = ValidationError("ESLint must be selected to use Prettier!")

\* C8 witness: a TypeScript answer set with tools = ["Prettier"] is rejected by
\* checkTypeScriptTools.
C8_Witness ==
    /\ pc = "failed"
    /\ answers["language"] = Word("TypeScript")
    /\ answers["tools"] = Arr(<<"Prettier">>)
    /\ error = ValidationError("ESLint must be selected to use Prettier!")

\* The JavaScript side of C8: tools = ["Prettier"] passes, the validator not run.
C8_WitnessJavaScript ==
    /\ pc = "done"
    /\ answers["language"] = Word("JavaScript")
    /\ answers["tools"] = Arr(<<"Prettier">>)

\* C9: no validator of a name listed in disableValidation is invoked, so
\* validateAnswers never fails because of it; every active validator of a
\* name not listed is still invoked before validateAnswers returns.
C9_DisabledValidatorsSkipped ==
    /\ \A k \in 1..Len(invoked) : questions[invoked[k]].name \notin disableValidation
    /\ pc \in {"render", "done"} =>
          \A i \in QIdx :
              (Active(i, answers) /\ questions[i].action # "none"
                    /\ questions[i].name \notin disableValidation)
                  => \E k \in 1..Len(invoked) : invoked[k] = i

\* C9 witness: an empty title passes validation with "title" disabled.
C9_Witness ==
    /\ pc = "done"
    /\ disableValidation = {"title"}
    /\ checkTitle(answers["title"]) # PASS
    /\ invoked # <<>>

\* A string that is empty or consists of blanks only.
IsBlankString(x) == x.k = "string" /\ \A i \in 1..Len(x.v) : x.v[i] = " "

\* C10: an empty or whitespace-only title is not a missing answer: checkAnswers
\* does not throw `Missing answer` for it, and the session, unless an earlier
\* step fails or the title validator is disabled, fails in validation with the
\* title validator's own message.
C10_BlankTitleFailsInValidation ==
    (Called /\ IsBlankString(given["title"])) =>
        /\ error # MissingAnswer("title")
        /\ (CheckPassed /\ "title" \notin disableValidation)
              => /\ pc \notin {"render", "done"}
                 /\ (ValidationFailed /\ LastInvoked = TitleIndex)
                        => error = ValidationError("Please enter a title!")
                 /\ ValidationFailed => LastInvoked <= TitleIndex

\* C10 witness: the title "   " is rejected by the title validator.
C10_Witness ==
    /\ pc = "failed"
    /\ given["title"] = Str(<<" ", " ", " ">>)
    /\ error = ValidationError("Please enter a title!")

\* Question i has a resultTransform.
HasTransform(i) == questions[i].resultTransform # "none"

\* The value the transform table of the specification assigns to the given
\* answer of question i (adapterName, description, keywords, contributors).
TransformOfGiven(i) ==
    LET n == questions[i].name
        x == given[n]
    IN CASE n = "adapterName" -> transformAdapterName(x)
         [] n = "description" -> transformDescription(x)
         [] n = "keywords" -> transformKeywords(x)
         [] n = "contributors" -> transformContributors(x)
         [] OTHER -> x

\* What formatAnswers leaves under the name of question i.
FormattedValue(i) ==
    IF Active(i, answers) /\ ~IsNullish(given[questions[i].name])
    THEN TransformOfGiven(i) ELSE given[questions[i].name]

\* formatAnswers has returned.
FormatDone == pc \in {"validate", "render", "done"} \/ ValidationFailed

\* C11: formatAnswers walks the questions once, in declaration order: the
\* questions transformed so far are in strictly increasing order, each had a
\* defined answer and a resultTransform; while the loop runs, every question
\* before the loop position that is active with a defined answer holds its
\* transformed value and every question from the loop position on still holds
\* the given value; when the loop has returned every such answer is transformed
\* and every other entry is as given.
C11_FormatInDeclarationOrder ==
    /\ \A k \in 1..Len(formatted) :
          /\ HasTransform(formatted[k])
          /\ ~IsNullish(given[questions[formatted[k]].name])
          /\ k > 1 => formatted[k - 1] < formatted[k]
    /\ pc = "format" =>
          \A i \in QIdx :
              answers[questions[i].name] =
                  IF HasTransform(i) /\ i < qi
                  THEN FormattedValue(i) ELSE given[questions[i].name]
    /\ FormatDone =>
          /\ \A i \in QIdx :
                HasTransform(i) => answers[questions[i].name] = FormattedValue(i)
          /\ \A n \in AnswerNames :
                (\A i \in QIdx : questions[i].name = n => ~HasTransform(i))
                    => answers[n] = given[n]

\* C11 witness: formatAnswers has returned after transforming two answers, the
\* later of which it changed.
C11_Witness ==
    /\ pc = "validate"
    /\ Len(formatted) >= 2
    /\ answers[questions[formatted[2]].name] # given[questions[formatted[2]].name]

\* Every answer with a resultTransform holds its transformed value.
AllTransformed ==
    \A i \in QIdx : HasTransform(i) => answers[questions[i].name] = FormattedValue(i)

\* C12: in every session the answer set goes through transformation strictly
\* before validation, and rendering receives it only after both completed
\* successfully: while formatAnswers (or anything before it) runs no validator
\* has been invoked and nothing is rendered; once a validator has been invoked
\* every transformable answer is transformed; what is rendered is the
\* transformed answer set, each validator that applies to it having been
\* invoked and having accepted.
C12_TransformThenValidateThenRender ==
    /\ pc \in {"context", "infer", "collect", "format"} =>
          invoked = <<>> /\ pending = 0 /\ rendered = <<>>
    /\ (invoked # <<>> \/ pending # 0) => AllTransformed
    /\ pc \in {"validate", "render"} => rendered = <<>>
    /\ rendered # <<>> =>
          /\ pc = "done"
          /\ error = NoError
          /\ rendered = <<answers>>
          /\ AllTransformed
          /\ \A i \in QIdx :
                (Active(i, answers) /\ questions[i].action # "none"
                    /\ questions[i].name \notin disableValidation)
                  => /\ \E k \in 1..Len(invoked) : invoked[k] = i
                     /\ ResultOf(i) = PASS

\* C12 witness: a session rendered an answer set whose adapter name was
\* changed by its transform and then validated.
C12_Witness ==
    /\ pc = "done"
    /\ rendered # <<>>
    /\ answers["adapterName"] # given["adapterName"]
    /\ \E k \in 1..Len(invoked) : questions[invoked[k]].name = "adapterName"

\* The validator invoked k-th has returned, and returned an error string.
ValidatorRejected(k) ==
    /\ k \in 1..Len(invoked)
    /\ k < Len(invoked) \/ pending = 0
    /\ ResultOf(invoked[k]) # PASS

\* The migrate call made k-th threw.
MigrateThrew(k) ==
    /\ k \in 1..Len(migrated)
    /\ IsThrown(Migrate(questions[migrated[k]], ctx, answers))

\* C13: if a step of a session fails, the session ends with that error and
\* nothing is emitted: a failed session carries its error, has handed no
\* answer set to rendering and takes no further step; an error is carried by
\* failed sessions only; and a missing answer, a validator's error string and
\* a throwing migrate call each leave the session failed with their own error.
C13_FailureEmitsNothing ==
    /\ pc = "failed" => (error # NoError /\ rendered = <<>> /\ ~ENABLED Next)
    /\ error # NoError => pc = "failed"
    /\ (Called /\ \E i \in QIdx : Unanswered(i, given)) =>
          (pc = "failed" /\ error.msg = MissingAnswer("")["msg"])
    /\ \A k \in 1..Len(invoked) :
          ValidatorRejected(k) =>
              (pc = "failed" /\ error = ValidationError(ResultOf(invoked[k])))
    /\ \A k \in 1..Len(migrated) :
          MigrateThrew(k) => (pc = "failed" /\ IsMigrateError(error))

\* C13 witness: a validator rejected the answer set of a session after an
\* earlier validator had accepted; the session failed and rendered nothing.
C13_Witness ==
    /\ pc = "failed"
    /\ Len(invoked) >= 2
    /\ ValidatorRejected(Len(invoked))
    /\ rendered = <<>>

\* The migrate function of question i was called.
WasMigrated(i) == \E k \in 1..Len(migrated) : migrated[k] = i

\* Migration inference is running or has returned the answer set, which
\* createAdapter has not yet been given.
Inferring == IsMigration(scenario) /\ pc \in {"infer", "collect"}

\* C14: migration inference visits each question once, in declaration order,
\* one at a time: the migrate calls made so far are in strictly increasing
\* question order; of the questions before the loop position exactly those
\* whose condition holds on the partial answer set and that have a migrate
\* function were called, none from the loop position on; and the partial
\* answer set holds, under each name, the result of the call made for that
\* name unless that result was undefined, and nothing else.
C14_InferenceInDeclarationOrder ==
    /\ \A k \in 2..Len(migrated) : migrated[k - 1] < migrated[k]
    /\ Inferring =>
          /\ \A i \in QIdx :
                WasMigrated(i) <=>
                    /\ pc = "infer" => i < qi
                    /\ Active(i, answers)
                    /\ HasMigrate(questions[i])
          /\ \A n \in AnswerNames :
                LET S == {i \in QIdx : WasMigrated(i) /\ questions[i].name = n}
                IN IF S = {} THEN answers[n] = UNDEF
                   ELSE \A i \in S : answers[n] = Migrate(questions[i], ctx, answers)

\* C14 witness: inference has returned; it called the migrate function of
\* "title", whose result was undefined and was not stored, and skipped the
\* inactive questions.
C14_Witness ==
    /\ Inferring
    /\ pc = "collect"
    /\ WasMigrated(TitleIndex)
    /\ answers["title"] = UNDEF
    /\ \E i \in QIdx : HasMigrate(questions[i]) /\ ~WasMigrated(i)

\* Migration inference has returned the answer set of the context.
InferenceDone ==
    IsMigration(scenario) /\ pc \notin {"context", "infer"} /\ ~IsMigrateError(error)

\* `src` holds a file whose name ends in .ts but not in .d.ts.
SrcHasTsNotDts ==
    \E f \in ctx.files :
        /\ f.dir # <<>> /\ f.dir[1] = "src"
        /\ f.name[Len(f.name)] = ".ts"
        /\ ~(Len(f.name) >= 2 /\ f.name[Len(f.name) - 1] = ".d")

\* The main file has a line that, after blanks and tabs, starts with `class`.
MainFileHasClassLine ==
    \E l \in 1..Len(ctx.mainFile) :
        \E p \in 1..Len(ctx.mainFile[l]) :
            /\ ctx.mainFile[l][p] \in {"class", "classes"}
            /\ \A r \in 1..(p - 1) : ctx.mainFile[l][r] \in {" ", "\t"}

\* instanceObjects has an entry whose _id is "info.connection".
HasConnectionObject ==
    /\ ctx.ioInstanceObjects.k = "array"
    /\ \E o \in 1..Len(ctx.ioInstanceObjects.v) :
          ctx.ioInstanceObjects.v[o] = "info.connection"

\* The three answers as the round trip states them.
RoundTripAnswers ==
    /\ answers["language"] =
          IF SrcHasTsNotDts THEN Word("TypeScript") ELSE Word("JavaScript")
    /\ answers["es6class"] = IF MainFileHasClassLine THEN Word("yes") ELSE Word("no")
    /\ answers["connectionIndicator"] =
          IF HasConnectionObject THEN Word("yes") ELSE Word("no")

\* C15 as stated: for every migration context, the inferred, formatted and
\* validated answer set has language = "TypeScript" iff src holds a .ts file
\* that is not a .d.ts (else "JavaScript"), es6class = "yes" iff the main file
\* has a line starting with `class` (else "no"), and connectionIndicator =
\* "yes" iff instanceObjects has `info.connection` (else "no").
C15_RoundTripAlways ==
    (InferenceDone /\ pc \in {"render", "done"}) => RoundTripAnswers

\* C15, amended: the round trip holds for the contexts whose inferred features
\* contain "adapter" (the project has an admin directory); for every other
\* context the three questions are inactive and none of the three answers is
\* inferred.
C15_RoundTripForAdapters ==
    InferenceDone =>
        IF directoryExists(ctx, <<"admin">>)
        THEN RoundTripAnswers
        ELSE /\ answers["language"] = UNDEF
             /\ answers["es6class"] = UNDEF
             /\ answers["connectionIndicator"] = UNDEF

\* C15 witness: a migrated adapter whose src holds only a .d.ts file and whose
\* main file declares a class was inferred as JavaScript with es6class "yes",
\* and was rendered.
C15_Witness ==
    /\ InferenceDone
    /\ pc = "done"
    /\ ~SrcHasTsNotDts
    /\ \E f \in ctx.files : f.dir # <<>> /\ f.dir[1] = "src"
    /\ answers["language"] = Word("JavaScript")
    /\ answers["es6class"] = Word("yes")

\* The atomic conditions of question i.
ConditionsOf(i) == {questions[i].condition[c] : c \in 1..Len(questions[i].condition)}

\* The record named "type" that is asked when the project is no adapter.
TypeVisIndex ==
    CHOOSE i \in QIdx :
        questions[i].name = "type" /\ CondDoesNotContain("features", "adapter") \in ConditionsOf(i)

\* C16: condition evaluation treats a missing referenced answer as failing
\* `value` and `contains` and as passing `doesNotContain`: on every answer set
\* each atomic condition whose referenced answer is absent evaluates true
\* exactly when it is a `doesNotContain`; on an answer set without `features`
\* every question conditioned on features containing "adapter" is inactive
\* and the `type` record conditioned on features not containing "adapter" is
\* active.
C16_MissingAnswerConditions ==
    /\ \A i \in QIdx : \A c \in ConditionsOf(i) :
          answers[c.name] = UNDEF =>
              (testSingleCondition(c, answers) <=> c.op = "doesNotContain")
    /\ answers["features"] = UNDEF =>
          /\ \A i \in QIdx :
                CondContains("features", "adapter") \in ConditionsOf(i) => ~Active(i, answers)
          /\ Active(TypeVisIndex, answers)

\* C16 witness: checkAnswers ran on an answer set that has no `features` but
\* has the answers of the adapter questions.
C16_Witness ==
    /\ Called
    /\ answers["features"] = UNDEF
    /\ answers["language"] # UNDEF
    /\ answers["type"] # UNDEF
    /\ pc = "failed"

\* C18: during and after migration inference each name is written at most
\* once, at most one of the records sharing a name having had its migrate
\* function called, and every name that holds an answer belongs to a question
\* record whose condition evaluates true on the answer set.
C18_InferenceWritesOncePerName ==
    IsMigration(scenario) =>
        /\ \A k1 \in 1..Len(migrated) : \A k2 \in 1..Len(migrated) :
              k1 # k2 => questions[migrated[k1]].name # questions[migrated[k2]].name
        /\ \A n \in AnswerNames :
              answers[n] # UNDEF =>
                  \E i \in QIdx : questions[i].name = n /\ Active(i, answers)

\* C18 witness: inference on a project that is both an adapter and a VIS
\* project has returned; of the two records named "type" it called the
\* migrate function of the adapter one only, and "type" holds an answer.
C18_Witness ==
    /\ Inferring
    /\ pc = "collect"
    /\ answers["features"] = Arr(<<"adapter", "vis">>)
    /\ answers["type"] # UNDEF
    /\ ~WasMigrated(TypeVisIndex)
    /\ \E i \in QIdx : questions[i].name = "type" /\ WasMigrated(i)

\* The names of the answers the conditions of the graph may read.
ConditionNames == {"features", "adminFeatures", "startMode", "language"}

\* C19: in the flattened question list every atomic condition references
\* either the external flag `cli` or one of the names features,
\* adminFeatures, startMode, language, all of whose question records are
\* declared strictly earlier than the conditioned record; hence while the
\* inference loop runs no condition of a visited question names an answer of
\* a question still to be visited.
C19_ConditionsReferenceEarlierNames ==
    /\ \A i \in QIdx : \A c \in ConditionsOf(i) :
          \/ c.name = "cli"
          \/ /\ c.name \in ConditionNames
             /\ \A j \in QIdx : questions[j].name = c.name => j < i
    /\ "cli" \notin QuestionNames
    /\ pc = "infer" =>
          \A i \in QIdx : \A c \in ConditionsOf(i) :
              i < qi => \A j \in QIdx : j >= qi => questions[j].name # c.name

\* C19 witness: inference has evaluated the condition of tabReact, which
\* reads adminFeatures, after adminFeatures was inferred to contain "tab".
C19_Witness ==
    /\ pc = "infer"
    /\ \E i \in QIdx : questions[i].name = "tabReact" /\ WasMigrated(i)
    /\ answers["adminFeatures"] = Arr(<<"tab">>)

\* The names all of whose question records are optional.
OptionalNames ==
    {n \in QuestionNames : \A i \in QIdx : questions[i].name = n => questions[i].optional}

\* The expert-only questions that are not optional.
ExpertRequired == {i \in QIdx : questions[i].expert /\ ~questions[i].optional}

\* C20: the expert flag does not relax completeness: when an expert-only,
\* non-optional question that is active on the given answer set has no
\* answer, checkAnswers throws `Missing answer` (for that question or an
\* earlier one), whatever the `expert` answer is; for an adapter project these
\* are adminFeatures, startMode, connectionIndicator, es6class,
\* gitRemoteProtocol, ci and dependabot; and `Missing answer` never names an
\* optional question (description, keywords, contributors, expert,
\* connectionType, dataSource among them).
C20_ExpertDoesNotRelaxCompleteness ==
    /\ {questions[i].name : i \in ExpertRequired} =
          {"adminFeatures", "startMode", "scheduleStartOnChange", "connectionIndicator",
           "es6class", "gitRemoteProtocol", "gitCommit", "ci", "dependabot"}
    /\ {"description", "keywords", "contributors", "expert", "connectionType",
        "dataSource"} \subseteq OptionalNames
    /\ Called =>
          /\ \A i \in ExpertRequired :
                (Active(i, given) /\ IsNullish(given[questions[i].name])) =>
                    /\ pc = "failed"
                    /\ error.msg = MissingAnswer("")["msg"]
                    /\ \E j \in QIdx : j <= i /\ error = MissingAnswer(questions[j].name)
          /\ error.msg = MissingAnswer("")["msg"] => error.name \notin OptionalNames

\* C20 witness: an adapter answer set without the optional connectionType
\* and without the expert-only es6class was rejected for es6class.
C20_Witness ==
    /\ pc = "failed"
    /\ given["features"] = Arr(<<"adapter">>)
    /\ given["connectionType"] = UNDEF
    /\ given["expert"] = UNDEF
    /\ error = MissingAnswer("es6class")

\* The names of the questions that carry a resultTransform.
TransformNames == {questions[i].name : i \in {j \in QIdx : HasTransform(j)}}

\* The step runs checkAnswers: createAdapter is called on the collected or
\* inferred answer set.
CheckStep == pc = "collect" /\ pc' # "collect"

\* C21: formatAnswers changes the answer set it is given in place and only in
\* entries of questions that carry a resultTransform (adapterName,
\* description, keywords, contributors) and whose value is not undefined:
\* every other entry is the same after each of its steps, and the answer set
\* it returns is the one validateAnswers goes on to read; checkAnswers and
\* validateAnswers leave every entry unchanged, whether they return or throw.
C21_FrameOfCheckFormatValidate ==
    [][ /\ TransformNames = {"adapterName", "description", "keywords", "contributors"}
        /\ CheckStep => answers' = answers
        /\ pc = "validate" => answers' = answers
        /\ pc = "format" =>
              \A n \in AnswerNames :
                  answers'[n] # answers[n] =>
                      /\ n \in TransformNames
                      /\ ~IsNullish(answers[n])
                      /\ pc' = "format"
      ]_vars

\* C21 witness: formatAnswers changed the adapter name and left the absent
\* description absent, after which a validator threw; every entry without a
\* resultTransform is as given.
C21_Witness ==
    /\ ValidationFailed
    /\ answers["adapterName"] # given["adapterName"]
    /\ given["description"] = UNDEF
    /\ answers["description"] = UNDEF
    /\ \A n \in AnswerNames \ TransformNames : answers[n] = given[n]

=============================================================================
